---- MODULE Spec2Model ----
(***************************************************************************)
(* Window manager of the desktop shell                                     *)
(* (src/src/components/desktop/WindowManager.tsx) together with the event  *)
(* wiring of the window view (src/unnamed/part_001).                       *)
(*                                                                         *)
(* The provider holds two pieces of React state, `windows` and             *)
(* `topZIndex`.  Every operation of the manager only enqueues updater      *)
(* functions; React applies them when it renders after the event.  One     *)
(* step of the model is one browser event: the calls the handler makes,    *)
(* followed by the render that applies the queued updaters.                *)
(***************************************************************************)
EXTENDS Integers, Sequences, FiniteSets, TLC

----------------------------------------------------------------------------
(* Bounds and input domains *)

BaseZ == 100                 \* useState(100)
MaxAlloc == 3                \* z values allocated in one behaviour
MaxTop == BaseZ + MaxAlloc
MaxAllocBatched == 2         \* the same, in behaviours with two-call events

Ids == {"a", "b"}
Positions == {<<0, 0>>, <<40, 20>>}         \* <<x, y>>
Sizes == {<<400, 300>>, <<500, 350>>}       \* <<width, height>>
\* the specs callers pass to openWindow:
\* id, title, x, y, width, height, isMaximized
Launchers ==
  { <<"a", "Notes", 0, 0, 400, 300, FALSE>>,
    <<"a", "Chat", 40, 20, 500, 350, TRUE>>,
    <<"b", "Chat", 40, 20, 500, 350, FALSE>> }

\* The JavaScript value undefined, as a value that is no list of windows
\* (encoded so that it can be compared with one).
Undefined == <<[undefined |-> TRUE]>>

IconOf(t) == IF t = "Notes" THEN "N" ELSE "C"
ContentOf(t) == IF t = "Notes" THEN "notes-app" ELSE "chat-app"

----------------------------------------------------------------------------
(* Window records *)

\* Omit<WindowState, 'zIndex' | 'isFocused'>: what a caller of openWindow passes
WindowSpecs ==
  { [id |-> l[1], title |-> l[2], icon |-> IconOf(l[2]), content |-> ContentOf(l[2]),
     x |-> l[3], y |-> l[4], width |-> l[5], height |-> l[6],
     isMinimized |-> mn, isMaximized |-> l[7]] :
       l \in Launchers, mn \in BOOLEAN }

\* Mutant: the new window takes currentZ instead of newZ.
NewWindow_StaleZ(window, newZ) ==
  [id |-> window.id, title |-> window.title, icon |-> window.icon,
   content |-> window.content, x |-> window.x, y |-> window.y,
   width |-> window.width, height |-> window.height,
   isMinimized |-> window.isMinimized, isMaximized |-> window.isMaximized,
   zIndex |-> newZ - 1, isFocused |-> TRUE]

\* { ...window, zIndex: newZ, isFocused: true }
NewWindow(window, newZ) ==
  [id |-> window.id, title |-> window.title, icon |-> window.icon,
   content |-> window.content, x |-> window.x, y |-> window.y,
   width |-> window.width, height |-> window.height,
   isMinimized |-> window.isMinimized, isMaximized |-> window.isMaximized,
   zIndex |-> newZ, isFocused |-> TRUE]

\* prev.filter(w => w.id !== id)
RECURSIVE FilterOut(_, _)
FilterOut(prev, id) ==
  IF prev = <<>> THEN <<>>
  ELSE IF Head(prev).id = id THEN FilterOut(Tail(prev), id)
       ELSE <<Head(prev)>> \o FilterOut(Tail(prev), id)

\* prev.find(w => w.id === id) is not undefined
Has(prev, id) == \E k \in 1..Len(prev) : prev[k].id = id

\* prev.find(w => w.id === id): the first match
Find(prev, id) ==
  prev[CHOOSE k \in 1..Len(prev) :
         /\ prev[k].id = id
         /\ \A j \in 1..(k - 1) : prev[j].id # id]

----------------------------------------------------------------------------
(* The updater functions handed to setWindows.  Each returns the next value *)
(* of `windows` and the telemetry it emits while computing it.              *)

Upd(w, t, g) == [windows |-> w, emitted |-> t, gauge |-> g]

\* Mutant: open does not look for an existing window with the id.
openWindowUpdate_AlwaysAppends(prev, window, newZ) ==
  Upd([k \in 1..Len(prev) |-> [prev[k] EXCEPT !.isFocused = FALSE]]
        \o <<[id |-> window.id, title |-> window.title, icon |-> window.icon,
              content |-> window.content, x |-> window.x, y |-> window.y,
              width |-> window.width, height |-> window.height,
              isMinimized |-> window.isMinimized,
              isMaximized |-> window.isMaximized,
              zIndex |-> newZ, isFocused |-> TRUE]>>,
      <<"log:Window opened", "count:window.opened">>,
      TRUE)

\* Mutant: open treats a minimized existing window like one that is open.
openWindowUpdate_LeavesMinimized(prev, window, newZ) ==
  IF Has(prev, window.id)
  THEN Upd([k \in 1..Len(prev) |->
              IF prev[k].id = window.id
              THEN [prev[k] EXCEPT !.isFocused = TRUE, !.zIndex = newZ]
              ELSE [prev[k] EXCEPT !.isFocused = FALSE]],
           IF Find(prev, window.id).isMinimized
           THEN <<"log:Window restored from taskbar", "count:window.restored">>
           ELSE <<"log:Window focused (already open)">>,
           FALSE)
  ELSE Upd([k \in 1..Len(prev) |-> [prev[k] EXCEPT !.isFocused = FALSE]]
             \o <<[id |-> window.id, title |-> window.title, icon |-> window.icon,
                   content |-> window.content, x |-> window.x, y |-> window.y,
                   width |-> window.width, height |-> window.height,
                   isMinimized |-> window.isMinimized,
                   isMaximized |-> window.isMaximized,
                   zIndex |-> newZ, isFocused |-> TRUE]>>,
           <<"log:Window opened", "count:window.opened">>,
           TRUE)

\* Mutant: open of a window that is already open moves and resizes it to the
\* geometry of the spec.
openWindowUpdate_TakesSpecGeometry(prev, window, newZ) ==
  IF Has(prev, window.id)
  THEN IF Find(prev, window.id).isMinimized
       THEN Upd([k \in 1..Len(prev) |->
                   IF prev[k].id = window.id
                   THEN [prev[k] EXCEPT !.isMinimized = FALSE,
                                        !.isFocused = TRUE, !.zIndex = newZ]
                   ELSE [prev[k] EXCEPT !.isFocused = FALSE]],
                <<"log:Window restored from taskbar", "count:window.restored">>,
                FALSE)
       ELSE Upd([k \in 1..Len(prev) |->
                   IF prev[k].id = window.id
                   THEN [prev[k] EXCEPT !.isFocused = TRUE, !.zIndex = newZ,
                                        !.x = window.x, !.y = window.y,
                                        !.width = window.width,
                                        !.height = window.height,
                                        !.isMaximized = window.isMaximized]
                   ELSE [prev[k] EXCEPT !.isFocused = FALSE]],
                <<"log:Window focused (already open)">>,
                FALSE)
  ELSE Upd([k \in 1..Len(prev) |-> [prev[k] EXCEPT !.isFocused = FALSE]]
             \o <<[id |-> window.id, title |-> window.title, icon |-> window.icon,
                   content |-> window.content, x |-> window.x, y |-> window.y,
                   width |-> window.width, height |-> window.height,
                   isMinimized |-> window.isMinimized,
                   isMaximized |-> window.isMaximized,
                   zIndex |-> newZ, isFocused |-> TRUE]>>,
           <<"log:Window opened", "count:window.opened">>,
           TRUE)

\* Mutant: open of an existing window replaces its title, icon and content by
\* those of the spec.
openWindowUpdate_Retitles(prev, window, newZ) ==
  IF Has(prev, window.id)
  THEN Upd([k \in 1..Len(prev) |->
              IF prev[k].id = window.id
              THEN [prev[k] EXCEPT !.isMinimized = FALSE,
                                   !.isFocused = TRUE, !.zIndex = newZ,
                                   !.title = window.title, !.icon = window.icon,
                                   !.content = window.content]
              ELSE [prev[k] EXCEPT !.isFocused = FALSE]],
           IF Find(prev, window.id).isMinimized
           THEN <<"log:Window restored from taskbar", "count:window.restored">>
           ELSE <<"log:Window focused (already open)">>,
           FALSE)
  ELSE Upd([k \in 1..Len(prev) |-> [prev[k] EXCEPT !.isFocused = FALSE]]
             \o <<[id |-> window.id, title |-> window.title, icon |-> window.icon,
                   content |-> window.content, x |-> window.x, y |-> window.y,
                   width |-> window.width, height |-> window.height,
                   isMinimized |-> window.isMinimized,
                   isMaximized |-> window.isMaximized,
                   zIndex |-> newZ, isFocused |-> TRUE]>>,
           <<"log:Window opened", "count:window.opened">>,
           TRUE)

\* setWindows(prev => ...) of openWindow (lines 37-89); newZ is captured from
\* the enclosing setTopZIndex updater.  gauge = TRUE: the create branch has
\* called setWindows once more, with the gauge updater (lines 80-83).
openWindowUpdate(prev, window, newZ) ==
  IF Has(prev, window.id)
  THEN IF Find(prev, window.id).isMinimized
       THEN Upd([k \in 1..Len(prev) |->
                   IF prev[k].id = window.id
                   THEN [prev[k] EXCEPT !.isMinimized = FALSE,
                                        !.isFocused = TRUE, !.zIndex = newZ]
                   ELSE [prev[k] EXCEPT !.isFocused = FALSE]],
                <<"log:Window restored from taskbar", "count:window.restored">>,
                FALSE)
       ELSE Upd([k \in 1..Len(prev) |->
                   IF prev[k].id = window.id
                   THEN [prev[k] EXCEPT !.isFocused = TRUE, !.zIndex = newZ]
                   ELSE [prev[k] EXCEPT !.isFocused = FALSE]],
                <<"log:Window focused (already open)">>,
                FALSE)
  ELSE Upd([k \in 1..Len(prev) |-> [prev[k] EXCEPT !.isFocused = FALSE]]
             \o <<NewWindow(window, newZ)>>,
           <<"log:Window opened", "count:window.opened">>,
           TRUE)

\* setWindows(windows => { ...gauge... }) (lines 80-83): the arrow function has
\* a block body without a return statement, so it returns undefined.
gaugeUpdate(prev) ==
  Upd(Undefined, <<"gauge:window.open_count">>, FALSE)

\* Mutant: the filter keeps the window with the id instead of dropping it.
closeWindowUpdate_KeepsTarget(prev, id) ==
  Upd(SelectSeq(prev, LAMBDA w : w.id = id),
      IF Has(prev, id)
      THEN <<"log:Window closed", "count:window.closed", "gauge:window.open_count">>
      ELSE <<>>,
      FALSE)

\* Mutant: close hands the focus to the last window that is left.
closeWindowUpdate_HandsOver(prev, id) ==
  Upd([k \in 1..Len(FilterOut(prev, id)) |->
         IF k = Len(FilterOut(prev, id))
         THEN [FilterOut(prev, id)[k] EXCEPT !.isFocused = TRUE]
         ELSE FilterOut(prev, id)[k]],
      IF Has(prev, id)
      THEN <<"log:Window closed", "count:window.closed", "gauge:window.open_count">>
      ELSE <<>>,
      FALSE)

\* closeWindow (lines 94-113)
closeWindowUpdate(prev, id) ==
  Upd(FilterOut(prev, id),
      IF Has(prev, id)
      THEN <<"log:Window closed", "count:window.closed", "gauge:window.open_count">>
      ELSE <<>>,
      FALSE)

\* Mutant: minimize does not clear isFocused.
minimizeWindowUpdate_KeepsFocus(prev, id) ==
  Upd([k \in 1..Len(prev) |->
         IF prev[k].id = id
         THEN [prev[k] EXCEPT !.isMinimized = TRUE]
         ELSE prev[k]],
      IF Has(prev, id)
      THEN <<"log:Window minimized", "count:window.minimized">>
      ELSE <<>>,
      FALSE)

\* Mutant: minimize also leaves the maximized layout.
minimizeWindowUpdate_Unmaximizes(prev, id) ==
  Upd([k \in 1..Len(prev) |->
         IF prev[k].id = id
         THEN [prev[k] EXCEPT !.isMinimized = TRUE, !.isFocused = FALSE,
                              !.isMaximized = FALSE]
         ELSE prev[k]],
      IF Has(prev, id)
      THEN <<"log:Window minimized", "count:window.minimized">>
      ELSE <<>>,
      FALSE)

\* minimizeWindow (lines 115-133)
minimizeWindowUpdate(prev, id) ==
  Upd([k \in 1..Len(prev) |->
         IF prev[k].id = id
         THEN [prev[k] EXCEPT !.isMinimized = TRUE, !.isFocused = FALSE]
         ELSE prev[k]],
      IF Has(prev, id)
      THEN <<"log:Window minimized", "count:window.minimized">>
      ELSE <<>>,
      FALSE)

\* Mutant: maximize sets isMaximized instead of toggling it.
maximizeWindowUpdate_OnlySets(prev, id) ==
  Upd([k \in 1..Len(prev) |->
         IF prev[k].id = id
         THEN [prev[k] EXCEPT !.isMaximized = TRUE]
         ELSE prev[k]],
      IF Has(prev, id)
      THEN IF ~Find(prev, id).isMaximized
           THEN <<"log:Window maximized", "count:window.maximized">>
           ELSE <<"log:Window restored from maximize", "count:window.unmaximized">>
      ELSE <<>>,
      FALSE)

\* maximizeWindow (lines 135-155)
maximizeWindowUpdate(prev, id) ==
  Upd([k \in 1..Len(prev) |->
         IF prev[k].id = id
         THEN [prev[k] EXCEPT !.isMaximized = ~prev[k].isMaximized]
         ELSE prev[k]],
      IF Has(prev, id)
      THEN IF ~Find(prev, id).isMaximized
           THEN <<"log:Window maximized", "count:window.maximized">>
           ELSE <<"log:Window restored from maximize", "count:window.unmaximized">>
      ELSE <<>>,
      FALSE)

\* Mutant: restore also leaves the maximized layout.
restoreWindowUpdate_Unmaximizes(prev, id, newZ) ==
  Upd([k \in 1..Len(prev) |->
         IF prev[k].id = id
         THEN [prev[k] EXCEPT !.isMinimized = FALSE, !.isFocused = TRUE,
                              !.zIndex = newZ, !.isMaximized = FALSE]
         ELSE [prev[k] EXCEPT !.isFocused = FALSE]],
      <<>>, FALSE)

\* Mutant: restore assigns currentZ instead of newZ.
restoreWindowUpdate_StaleZ(prev, id, newZ) ==
  Upd([k \in 1..Len(prev) |->
         IF prev[k].id = id
         THEN [prev[k] EXCEPT !.isMinimized = FALSE,
                              !.isFocused = TRUE, !.zIndex = newZ - 1]
         ELSE [prev[k] EXCEPT !.isFocused = FALSE]],
      <<>>, FALSE)

\* Mutant: restore does not raise the window.
restoreWindowUpdate_KeepsZ(prev, id, newZ) ==
  Upd([k \in 1..Len(prev) |->
         IF prev[k].id = id
         THEN [prev[k] EXCEPT !.isMinimized = FALSE, !.isFocused = TRUE]
         ELSE [prev[k] EXCEPT !.isFocused = FALSE]],
      <<>>, FALSE)

\* setWindows(prev => prev.map(...)) of restoreWindow (lines 160-164)
restoreWindowUpdate(prev, id, newZ) ==
  Upd([k \in 1..Len(prev) |->
         IF prev[k].id = id
         THEN [prev[k] EXCEPT !.isMinimized = FALSE,
                              !.isFocused = TRUE, !.zIndex = newZ]
         ELSE [prev[k] EXCEPT !.isFocused = FALSE]],
      <<>>, FALSE)

\* Mutant: focus also brings the window back from the taskbar.
focusWindowUpdate_Unminimizes(prev, id, newZ) ==
  Upd([k \in 1..Len(prev) |->
         IF prev[k].id = id
         THEN [prev[k] EXCEPT !.isFocused = TRUE, !.zIndex = newZ,
                              !.isMinimized = FALSE]
         ELSE [prev[k] EXCEPT !.isFocused = FALSE]],
      <<>>, FALSE)

\* Mutant: focus gives the focus without raising the window.
focusWindowUpdate_KeepsZ(prev, id, newZ) ==
  Upd([k \in 1..Len(prev) |->
         IF prev[k].id = id
         THEN [prev[k] EXCEPT !.isFocused = TRUE]
         ELSE [prev[k] EXCEPT !.isFocused = FALSE]],
      <<>>, FALSE)

\* Mutant: focus leaves the focus of the other windows as it is.
focusWindowUpdate_KeepsOthers(prev, id, newZ) ==
  Upd([k \in 1..Len(prev) |->
         IF prev[k].id = id
         THEN [prev[k] EXCEPT !.isFocused = TRUE, !.zIndex = newZ]
         ELSE prev[k]],
      <<>>, FALSE)

\* setWindows(prev => prev.map(...)) of focusWindow (lines 172-176)
focusWindowUpdate(prev, id, newZ) ==
  Upd([k \in 1..Len(prev) |->
         IF prev[k].id = id
         THEN [prev[k] EXCEPT !.isFocused = TRUE, !.zIndex = newZ]
         ELSE [prev[k] EXCEPT !.isFocused = FALSE]],
      <<>>, FALSE)

\* updateWindowPosition (lines 181-200)
updateWindowPositionUpdate(prev, id, x, y) ==
  Upd([k \in 1..Len(prev) |->
         IF prev[k].id = id
         THEN [prev[k] EXCEPT !.x = x, !.y = y]
         ELSE prev[k]],
      IF Has(prev, id)
      THEN <<"log:Window position updated", "count:window.moved">>
      ELSE <<>>,
      FALSE)

\* Mutant: a resize also moves the window to the origin.
updateWindowSizeUpdate_ResetsPosition(prev, id, width, height) ==
  Upd([k \in 1..Len(prev) |->
         IF prev[k].id = id
         THEN [prev[k] EXCEPT !.width = width, !.height = height,
                              !.x = 0, !.y = 0]
         ELSE prev[k]],
      IF Has(prev, id)
      THEN <<"log:Window size updated", "count:window.resized",
             "distribution:window.width", "distribution:window.height">>
      ELSE <<>>,
      FALSE)

\* updateWindowSize (lines 202-231)
updateWindowSizeUpdate(prev, id, width, height) ==
  Upd([k \in 1..Len(prev) |->
         IF prev[k].id = id
         THEN [prev[k] EXCEPT !.width = width, !.height = height]
         ELSE prev[k]],
      IF Has(prev, id)
      THEN <<"log:Window size updated", "count:window.resized",
             "distribution:window.width", "distribution:window.height">>
      ELSE <<>>,
      FALSE)

----------------------------------------------------------------------------
(* Calls of the manager's operations, as an event handler makes them *)

ZOps == {"open", "restore", "focus"}     \* operations that go through setTopZIndex

Call(op, id, t, x, y, w, h, mn, mx) ==
  [op |-> op, id |-> id, title |-> t, x |-> x, y |-> y,
   width |-> w, height |-> h, isMinimized |-> mn, isMaximized |-> mx]

OpenCall(window) ==
  Call("open", window.id, window.title, window.x, window.y,
       window.width, window.height, window.isMinimized, window.isMaximized)
IdCall(op, id) == Call(op, id, "", 0, 0, 0, 0, FALSE, FALSE)
PositionCall(id, x, y) == Call("updatePosition", id, "", x, y, 0, 0, FALSE, FALSE)
SizeCall(id, w, h) == Call("updateSize", id, "", 0, 0, w, h, FALSE, FALSE)

\* the argument of an openWindow call
SpecOf(c) ==
  [id |-> c.id, title |-> c.title, icon |-> IconOf(c.title),
   content |-> ContentOf(c.title), x |-> c.x, y |-> c.y,
   width |-> c.width, height |-> c.height,
   isMinimized |-> c.isMinimized, isMaximized |-> c.isMaximized]

\* the updater a call hands to setWindows, applied to prev
ApplyCall(prev, c, newZ) ==
  CASE c.op = "open" -> openWindowUpdate(prev, SpecOf(c), newZ)
    [] c.op = "close" -> closeWindowUpdate(prev, c.id)
    [] c.op = "minimize" -> minimizeWindowUpdate(prev, c.id)
    [] c.op = "maximize" -> maximizeWindowUpdate(prev, c.id)
    [] c.op = "restore" -> restoreWindowUpdate(prev, c.id, newZ)
    [] c.op = "focus" -> focusWindowUpdate(prev, c.id, newZ)
    [] c.op = "updatePosition" -> updateWindowPositionUpdate(prev, c.id, c.x, c.y)
    [] c.op = "updateSize" -> updateWindowSizeUpdate(prev, c.id, c.width, c.height)

----------------------------------------------------------------------------
(* React's processing of the updates queued by one event.                  *)
(*                                                                         *)
(* setTopZIndex(currentZ => { ...; setWindows(...); return newZ }) calls   *)
(* setWindows from inside an updater.  When the provider has no pending    *)
(* update at the time of the call (idle), React runs the updater at once   *)
(* to compute the state eagerly, and the inner setWindows is queued at     *)
(* call time.  Otherwise the updater runs during the render, and the inner *)
(* setWindows is a render-phase update: it is applied in a further pass,   *)
(* after every update already in the windows queue.  The gauge updater of  *)
(* the create branch is queued the same way from inside a setWindows       *)
(* updater: eagerly it is queued before the update that queues it, whose   *)
(* eagerly computed list then replaces its undefined; in a render it is    *)
(* applied one pass later and leaves undefined.                            *)

\* number of calls among calls[1..k] that allocate a z value
RECURSIVE ZCount(_, _)
ZCount(calls, k) ==
  IF k = 0 THEN 0
  ELSE ZCount(calls, k - 1) + (IF calls[k].op \in ZOps THEN 1 ELSE 0)

\* The updates of calls[k..], those selected by inPass, applied in order.
\* eager: the updaters run at call time, so that a gauge updater runs (and
\* emits) inside the updater that queues it; otherwise it is left pending.
RECURSIVE RunPass(_, _, _, _, _, _)
RunPass(calls, k, inPass, eager, acc, Z) ==
  IF k > Len(calls) THEN acc
  ELSE IF k \in inPass
       THEN LET r == ApplyCall(acc.windows, calls[k], Z + ZCount(calls, k))
                g == IF r.gauge /\ eager
                     THEN gaugeUpdate(acc.windows).emitted ELSE <<>>
            IN RunPass(calls, k + 1, inPass, eager,
                       Upd(r.windows, acc.emitted \o r.emitted \o g,
                           acc.gauge \/ (r.gauge /\ ~eager)), Z)
       ELSE RunPass(calls, k + 1, inPass, eager, acc, Z)

\* the calls whose windows update is in the queue when the render starts
QueuedAtCall(calls, idle) ==
  { k \in 1..Len(calls) : calls[k].op \notin ZOps \/ (k = 1 /\ idle) }

\* the calls whose windows update is queued while rendering
QueuedInRender(calls, idle) ==
  (1..Len(calls)) \ QueuedAtCall(calls, idle)

\* Mutant: restoreWindow does not allocate a z value.
TopAfter_SkipsRestore(calls, Z) ==
  Z + Cardinality({ k \in 1..Len(calls) : calls[k].op \in {"open", "focus"} })

\* topZIndex after the render: every setTopZIndex updater returns newZ
TopAfter(calls, Z) == Z + ZCount(calls, Len(calls))

\* the collection and the telemetry after the render that follows the event
Render(calls, idle, W, Z) ==
  LET \* pass 1: the updates queued at call time; an eagerly queued gauge
      \* update precedes the update that queued it and is overwritten by it
      p1 == RunPass(calls, 1, QueuedAtCall(calls, idle), TRUE,
                    Upd(W, <<>>, FALSE), Z)
      \* pass 2: the updates queued by setTopZIndex updaters while rendering
      p2 == RunPass(calls, 1, QueuedInRender(calls, idle), FALSE, p1, Z)
      \* pass 3: the gauge updates queued by the updaters of pass 2
      p3 == IF p2.gauge
            THEN Upd(gaugeUpdate(p2.windows).windows,
                     p2.emitted \o gaugeUpdate(p2.windows).emitted, FALSE)
            ELSE p2
  IN [windows |-> p3.windows, emitted |-> p3.emitted]

----------------------------------------------------------------------------
VARIABLES
  windows,     \* useState<WindowState[]>([])
  topZIndex,   \* useState(100)
  emitted,     \* telemetry emitted by the most recent event
  lastAssigned, \* history: the zIndex most recently given to a window, 0 if none
  scenarioStep, \* history: how far the events so far follow Scenario, -1 if they left it
  gesture,     \* history: the pointer gesture that the last event belongs to, if any
  \* one request to an agent endpoint (src/src/app/api/chat/route.ts and the
  \* customer-research routes src/unnamed/part_000, part_002)
  request,     \* the endpoint and the body of the request, <<>> if there is none
  phase,       \* "none", "received", "responded" (400 or 500), "streaming",
               \* "closed" (start returned) or "failed" (start rejected)
  response,    \* [status, error]: the Response that POST returned
  fullPrompt,  \* the prompt handed to query()
  agent,       \* "idle", "running", "done", "threw" or "stopped" (return() called)
  consumed,    \* the events the for-await loop has taken from query()
  frames,      \* the frames enqueued on the stream
  stream,      \* "none", "readable", "closed" or "cancelled"
  closes       \* number of controller.close() calls that returned

winVars == <<windows, topZIndex, emitted, lastAssigned, scenarioStep, gesture>>
routeVars ==
  <<request, phase, response, fullPrompt, agent, consumed, frames, stream, closes>>
vars ==
  <<windows, topZIndex, emitted, lastAssigned, scenarioStep, gesture,
    request, phase, response, fullPrompt, agent, consumed, frames, stream, closes>>

\* no request is being handled
NoRequest ==
  /\ request = <<>>
  /\ phase = "none"
  /\ response = [status |-> 0, error |-> ""]
  /\ fullPrompt = <<>>
  /\ agent = "idle"
  /\ consumed = <<>>
  /\ frames = <<>>
  /\ stream = "none"
  /\ closes = 0

Init ==
  /\ windows = <<>>
  /\ topZIndex = BaseZ
  /\ emitted = <<>>
  /\ lastAssigned = 0
  /\ scenarioStep = 0
  /\ gesture = <<>>
  /\ NoRequest

\* the zIndex values that windows of W2 hold and did not hold in W1
AssignedZ(W1, W2) ==
  IF W2 = Undefined THEN {}
  ELSE { W2[k].zIndex : k \in { j \in 1..Len(W2) :
           ~\E i \in 1..Len(W1) :
              W1[i].id = W2[j].id /\ W1[i].zIndex = W2[j].zIndex } }

Max(S) == CHOOSE m \in S : \A n \in S : n <= m

\* lastAssigned after a step from collection W1 to collection W2
NextAssigned(W1, W2, last) ==
  IF AssignedZ(W1, W2) = {} THEN last ELSE Max(AssignedZ(W1, W2))

\* The calls of a session on a fresh manager, one per event: open a, open b,
\* minimize a, open a again, close b.
Scenario ==
  << Call("open", "a", "Notes", 0, 0, 400, 300, FALSE, FALSE),
     Call("open", "b", "Chat", 40, 20, 500, 350, FALSE, FALSE),
     IdCall("minimize", "a"),
     Call("open", "a", "Notes", 0, 0, 400, 300, FALSE, FALSE),
     IdCall("close", "b") >>

\* scenarioStep after an event that makes the given calls
NextScenario(calls, step) ==
  IF step >= 0 /\ step < Len(Scenario) /\ calls = <<Scenario[step + 1]>>
  THEN step + 1
  ELSE -1

\* The render after an event installs the new state.
Install(calls, idle) ==
  /\ topZIndex' = TopAfter(calls, topZIndex)
  /\ windows' = Render(calls, idle, windows, topZIndex).windows
  /\ emitted' = Render(calls, idle, windows, topZIndex).emitted
  /\ lastAssigned' = NextAssigned(windows, windows', lastAssigned)
  /\ scenarioStep' = NextScenario(calls, scenarioStep)
  /\ UNCHANGED routeVars

\* an event that is not the end of a drag or of a resize
Commit(calls, idle) ==
  /\ Install(calls, idle)
  /\ gesture' = <<>>

\* No event has been handled since the provider was mounted.  The provider
\* then has no pending update and no stale alternate, so React runs the
\* updater of the first setTopZIndex call at call time; afterwards whether it
\* does depends on renders that are not the manager's.
Fresh == scenarioStep = 0
IdleNow == IF Fresh THEN {TRUE} ELSE BOOLEAN

\* An updater applied to an undefined collection throws (prev.find and
\* prev.map of undefined), and the render installs nothing.
CanDispatch(calls, bound) ==
  /\ windows # Undefined
  /\ TopAfter(calls, topZIndex) <= BaseZ + bound

openWindow(window, idle) ==
  /\ idle \in IdleNow
  /\ CanDispatch(<<OpenCall(window)>>, MaxAlloc)
  /\ Commit(<<OpenCall(window)>>, idle)

closeWindow(id) ==
  /\ CanDispatch(<<IdCall("close", id)>>, MaxAlloc)
  /\ Commit(<<IdCall("close", id)>>, FALSE)

minimizeWindow(id) ==
  /\ CanDispatch(<<IdCall("minimize", id)>>, MaxAlloc)
  /\ Commit(<<IdCall("minimize", id)>>, FALSE)

maximizeWindow(id) ==
  /\ CanDispatch(<<IdCall("maximize", id)>>, MaxAlloc)
  /\ Commit(<<IdCall("maximize", id)>>, FALSE)

restoreWindow(id, idle) ==
  /\ idle \in IdleNow
  /\ CanDispatch(<<IdCall("restore", id)>>, MaxAlloc)
  /\ Commit(<<IdCall("restore", id)>>, idle)

focusWindow(id, idle) ==
  /\ idle \in IdleNow
  /\ CanDispatch(<<IdCall("focus", id)>>, MaxAlloc)
  /\ Commit(<<IdCall("focus", id)>>, idle)

updateWindowPosition(id, x, y) ==
  /\ CanDispatch(<<PositionCall(id, x, y)>>, MaxAlloc)
  /\ Commit(<<PositionCall(id, x, y)>>, FALSE)

updateWindowSize(id, w, h) ==
  /\ CanDispatch(<<SizeCall(id, w, h)>>, MaxAlloc)
  /\ Commit(<<SizeCall(id, w, h)>>, FALSE)

\* every event handler makes one call
Next ==
  \/ \E window \in WindowSpecs, idle \in BOOLEAN : openWindow(window, idle)
  \/ \E id \in Ids : closeWindow(id)
  \/ \E id \in Ids : minimizeWindow(id)
  \/ \E id \in Ids : maximizeWindow(id)
  \/ \E id \in Ids, idle \in BOOLEAN : restoreWindow(id, idle)
  \/ \E id \in Ids, idle \in BOOLEAN : focusWindow(id, idle)
  \/ \E id \in Ids, p \in Positions : updateWindowPosition(id, p[1], p[2])
  \/ \E id \in Ids, s \in Sizes : updateWindowSize(id, s[1], s[2])

Spec == Init /\ [][Next]_vars

----------------------------------------------------------------------------
(* Events whose handler makes two calls before React renders *)

BatchCalls ==
  { OpenCall(w) : w \in { v \in WindowSpecs : ~v.isMinimized } }
    \cup { IdCall(op, id) :
             op \in {"close", "minimize", "maximize", "restore", "focus"},
             id \in Ids }
    \cup { PositionCall(id, 40, 20) : id \in Ids }
    \cup { SizeCall(id, 500, 350) : id \in Ids }

\* whether the provider is idle matters to a call that goes through setTopZIndex
IdleChoices(c) == IF c.op \in ZOps THEN IdleNow ELSE {FALSE}

oneCall(c, idle) ==
  /\ CanDispatch(<<c>>, MaxAllocBatched)
  /\ Commit(<<c>>, idle)

twoCalls(c1, c2, idle) ==
  /\ CanDispatch(<<c1, c2>>, MaxAllocBatched)
  /\ Commit(<<c1, c2>>, idle)

NextBatched ==
  \/ \E c \in BatchCalls : \E idle \in IdleChoices(c) : oneCall(c, idle)
  \/ \E c1 \in BatchCalls, c2 \in BatchCalls :
       \E idle \in IdleChoices(c1) : twoCalls(c1, c2, idle)

SpecBatched == Init /\ [][NextBatched]_vars

----------------------------------------------------------------------------
(* The window view (src/unnamed/part_001): one Rnd element per window that  *)
(* is not minimized.  Its handlers close over `win`, the window as of the   *)
(* last render, and call the manager.                                       *)

MaxAllocView == 2            \* z values allocated in one behaviour of the view

\* Mutant: a minimized window keeps its element on the screen.
Rendered_ShowsMinimized(id) ==
  /\ windows # Undefined
  /\ Has(windows, id)

\* if (!mounted || win.isMinimized) return null: the window with the id has
\* an element on the screen
Rendered(id) ==
  /\ windows # Undefined
  /\ Has(windows, id)
  /\ ~Find(windows, id).isMinimized

\* Mutant: the drag-end handler does not look at win.isMaximized.
onDragStop_Unguarded(win, x, y) == <<PositionCall(win.id, x, y)>>

\* onDragStop (lines 63-74): the calls the handler makes
onDragStop(win, x, y) ==
  IF ~win.isMaximized THEN <<PositionCall(win.id, x, y)>> ELSE <<>>

\* onResizeStop (lines 83-95): the calls the handler makes
onResizeStop(win, w, h, x, y) ==
  IF ~win.isMaximized
  THEN <<SizeCall(win.id, w, h), PositionCall(win.id, x, y)>>
  ELSE <<>>

\* onMouseDown (line 96) and onDragStart (lines 54-62): focusWindow(win.id)
pointerDown(id, idle) ==
  /\ Rendered(id)
  /\ idle \in IdleNow
  /\ CanDispatch(<<IdCall("focus", id)>>, MaxAllocView)
  /\ Install(<<IdCall("focus", id)>>, idle)
  /\ gesture' = <<"press", id>>

dragEnd(id, x, y) ==
  /\ Rendered(id)
  /\ CanDispatch(onDragStop(Find(windows, id), x, y), MaxAllocView)
  /\ Install(onDragStop(Find(windows, id), x, y), FALSE)
  /\ gesture' = <<"drag", id, x, y>>

resizeEnd(id, w, h, x, y) ==
  /\ Rendered(id)
  /\ CanDispatch(onResizeStop(Find(windows, id), w, h, x, y), MaxAllocView)
  /\ Install(onResizeStop(Find(windows, id), w, h, x, y), FALSE)
  /\ gesture' = <<"resize", id, w, h, x, y>>

\* the last event was a pointer-down on the window with the id
Pressed(id) == Len(gesture) = 2 /\ gesture[1] = "press" /\ gesture[2] = id

\* the three buttons of the title bar (lines 111-144): the click event; it
\* follows the pointer-down of a pointer click, and nothing when the button is
\* activated from the keyboard
titleBarButton(id, op) ==
  /\ Rendered(id)
  /\ CanDispatch(<<IdCall(op, id)>>, MaxAllocView)
  /\ Install(<<IdCall(op, id)>>, FALSE)
  /\ gesture' = IF Pressed(id) THEN <<"click", id, op>> ELSE <<>>

\* openWindow and restoreWindow as the other consumers of the context call them
launcher(c, idle) ==
  /\ idle \in IdleNow
  /\ CanDispatch(<<c>>, MaxAllocView)
  /\ Commit(<<c>>, idle)

LauncherCalls ==
  { OpenCall(window) : window \in WindowSpecs }
    \cup { IdCall("restore", id) : id \in Ids }

NextView ==
  \/ \E c \in LauncherCalls, idle \in BOOLEAN : launcher(c, idle)
  \/ \E id \in Ids, idle \in BOOLEAN : pointerDown(id, idle)
  \/ \E id \in Ids, p \in Positions : dragEnd(id, p[1], p[2])
  \/ \E id \in Ids, sz \in Sizes, p \in Positions :
       resizeEnd(id, sz[1], sz[2], p[1], p[2])
  \/ \E id \in Ids, op \in {"minimize", "maximize", "close"} :
       titleBarButton(id, op)

SpecView == Init /\ [][NextView]_vars

\* a consumer that never asks for a new window to be created minimized
disciplinedLauncher(c, idle) ==
  /\ (c.op = "open" /\ c.isMinimized) => (windows # Undefined /\ Has(windows, c.id))
  /\ launcher(c, idle)

NextDisciplined ==
  \/ \E c \in LauncherCalls, idle \in BOOLEAN : disciplinedLauncher(c, idle)
  \/ \E id \in Ids, idle \in BOOLEAN : pointerDown(id, idle)
  \/ \E id \in Ids, p \in Positions : dragEnd(id, p[1], p[2])
  \/ \E id \in Ids, sz \in Sizes, p \in Positions :
       resizeEnd(id, sz[1], sz[2], p[1], p[2])
  \/ \E id \in Ids, op \in {"minimize", "maximize", "close"} :
       titleBarButton(id, op)

\* the window view with consumers that open no new window minimized
SpecDisciplined == Init /\ [][NextDisciplined]_vars

----------------------------------------------------------------------------
(* The agent endpoints: POST of src/src/app/api/chat/route.ts and of the    *)
(* customer-research routes (src/unnamed/part_000, src/unnamed/part_002).   *)
(* The three handlers have the same structure and differ in their fixed     *)
(* strings, agent options and telemetry.                                    *)

MaxEvents == 3               \* events the agent produces for one request

\* the chat route and the two versions of the customer-research route, the
\* second of which hands an MCP server to the agent
Endpoints == {"chat", "customer-research", "customer-research-mcp"}

\* entries of the messages array: MessageInput records, and the JSON value null
User(content) == [role |-> "user", content |-> content]
Assistant(content) == [role |-> "assistant", content |-> content]
JsNull == [null |-> TRUE]

\* the arrays that requests carry as messages
Conversations ==
  { <<>>,
    <<Assistant("r1")>>,
    <<User("q1")>>,
    <<User("q1"), Assistant("r1")>>,
    <<Assistant("r1"), User("q1")>>,
    <<User("q1"), Assistant("r1"), User("q2")>>,
    <<JsNull>>,
    <<User("q1"), JsNull>> }

\* What the body of a request is: text that is no JSON, nothing, the JSON
\* values null and 5, an object without messages, an object whose messages is
\* null or a string, an object whose messages is an array.
BodyKinds ==
  {"unparseable", "empty", "null", "number", "object",
   "messagesNull", "messagesString", "array"}

Requests ==
  { [endpoint |-> ep, json |-> "array", messages |-> m] :
      ep \in Endpoints, m \in Conversations }
    \cup { [endpoint |-> ep, json |-> j, messages |-> <<>>] :
             ep \in Endpoints, j \in BodyKinds \ {"array"} }

\* await request.json() rejects with a SyntaxError
JsonThrows(req) == req.json \in {"unparseable", "empty"}

\* const { messages } = null throws a TypeError; destructuring a number or an
\* object without the property gives undefined
DestructureThrows(req) == req.json = "null"

\* !messages || !Array.isArray(messages)
MessagesMissing(req) == req.json # "array"

\* messages.filter(m => m.role === 'user') reads m.role of every entry
FilterThrows(messages) == \E k \in 1..Len(messages) : messages[k] = JsNull

UserMessages(messages) == SelectSeq(messages, LAMBDA m : m.role = "user")

\* messages.filter(m => m.role === 'user').pop()
lastUserMessage(messages) == UserMessages(messages)[Len(UserMessages(messages))]

\* `${m.role === 'user' ? 'User' : 'Assistant'}: ${m.content}`
Line(m) == <<IF m.role = "user" THEN "User" ELSE "Assistant", m.content>>

\* messages.slice(0, -1).map(...): joined with blank lines; the prompt is kept
\* as the list of its parts, each a pair of a label and a text
conversationContext(messages) ==
  [k \in 1..(Len(messages) - 1) |-> Line(messages[k])]

\* the fixed parts of the prompt
SystemPart == <<"System", "SYSTEM_PROMPT">>
HeadingPart == <<"Heading", "Previous conversation:">>

\* fullPrompt (chat/route.ts lines 92-94)
BuildPrompt(messages) ==
  IF conversationContext(messages) # <<>>
  THEN <<SystemPart, HeadingPart>>
         \o conversationContext(messages)
         \o <<<<"User", lastUserMessage(messages).content>>>>
  ELSE <<SystemPart, <<"User", lastUserMessage(messages).content>>>>

\* the body of the response of the outer catch
InternalError(ep) ==
  IF ep = "chat"
  THEN "Failed to process chat request. Check server logs for details."
  ELSE "Failed to process customer research request. Check server logs for details."

Outcome(status, error, prompt) ==
  [status |-> status, error |-> error, prompt |-> prompt]

\* Mutant: an array without a user message is taken as a conversation.
Handle_AcceptsNoUser(req) ==
  IF JsonThrows(req) \/ DestructureThrows(req)
  THEN Outcome(500, InternalError(req.endpoint), <<>>)
  ELSE IF MessagesMissing(req)
  THEN Outcome(400, "Messages array is required", <<>>)
  ELSE IF FilterThrows(req.messages)
  THEN Outcome(500, InternalError(req.endpoint), <<>>)
  ELSE Outcome(200, "", <<SystemPart>>)

\* Mutant: the outer catch answers with the message of the exception.
Handle_LeaksException(req) ==
  IF JsonThrows(req) \/ DestructureThrows(req)
  THEN Outcome(500, "SyntaxError: Unexpected token", <<>>)
  ELSE IF MessagesMissing(req)
  THEN Outcome(400, "Messages array is required", <<>>)
  ELSE IF FilterThrows(req.messages)
  THEN Outcome(500, "TypeError: Cannot read properties of null", <<>>)
  ELSE IF UserMessages(req.messages) = <<>>
  THEN Outcome(400, "No user message found", <<>>)
  ELSE Outcome(200, "", BuildPrompt(req.messages))

\* POST up to the construction of the stream (chat/route.ts lines 42-94 and
\* 317-341): the status, the error body and the prompt
Handle(req) ==
  IF JsonThrows(req) \/ DestructureThrows(req)
  THEN Outcome(500, InternalError(req.endpoint), <<>>)
  ELSE IF MessagesMissing(req)
  THEN Outcome(400, "Messages array is required", <<>>)
  ELSE IF FilterThrows(req.messages)
  THEN Outcome(500, InternalError(req.endpoint), <<>>)
  ELSE IF UserMessages(req.messages) = <<>>
  THEN Outcome(400, "No user message found", <<>>)
  ELSE Outcome(200, "", BuildPrompt(req.messages))

\* The messages that query() yields, by the fields the loop reads.
Event(type, subtype, content, tool) ==
  [type |-> type, subtype |-> subtype, content |-> content, tool |-> tool]

Block(type, name) == [type |-> type, name |-> name]

TextDelta == Event("stream_event", "text_delta", <<>>, "")
MessageStart == Event("stream_event", "message_start", <<>>, "")
\* a stream_event whose event is undefined: event.type throws a TypeError
NoEvent == Event("stream_event", "undefined", <<>>, "")
AssistantMessage ==
  Event("assistant", "",
        <<Block("tool_use", "Read"), Block("text", ""), Block("tool_use", "Bash")>>, "")
ToolProgress == Event("tool_progress", "", <<>>, "Read")
ResultSuccess == Event("result", "success", <<>>, "")
ResultMaxTurns == Event("result", "error_max_turns", <<>>, "")
SystemInit == Event("system", "init", <<>>, "")

Events ==
  { TextDelta, MessageStart, NoEvent, AssistantMessage, ToolProgress,
    ResultSuccess, ResultMaxTurns, SystemInit }

\* the payload of a frame `data: ...\n\n`
Frame(type, tool, message) == [type |-> type, tool |-> tool, message |-> message]

TextDeltaFrame == Frame("text_delta", "", "")
ToolStartFrame(name) == Frame("tool_start", name, "")
ToolProgressFrame(name) == Frame("tool_progress", name, "")
DoneFrame == Frame("done", "", "")
QueryErrorFrame == Frame("error", "", "Query did not complete successfully")
StreamErrorFrame == Frame("error", "", "Stream error occurred")
\* the literal data: [DONE]
DONE == Frame("[DONE]", "", "")

\* the steps of start() that act on the controller or throw
Enqueue(frame) == [op |-> "enqueue", frame |-> frame]
Close == [op |-> "close", frame |-> DONE]
Throw == [op |-> "throw", frame |-> DONE]
\* Sentry.startSpan enters the span of a tool and leaves it
StartSpan(name) == [op |-> "span", frame |-> ToolStartFrame(name)]
EndSpan(name) == [op |-> "spanEnd", frame |-> ToolStartFrame(name)]

\* Mutant: only the first tool_use block of a message is announced.
ToolStarts_FirstOnly(content) ==
  IF SelectSeq(content, LAMBDA b : b.type = "tool_use") = <<>> THEN <<>>
  ELSE << StartSpan(Head(SelectSeq(content, LAMBDA b : b.type = "tool_use")).name),
          Enqueue(ToolStartFrame(
                    Head(SelectSeq(content, LAMBDA b : b.type = "tool_use")).name)),
          EndSpan(Head(SelectSeq(content, LAMBDA b : b.type = "tool_use")).name) >>

\* chat: for (const block of content) if (block.type === 'tool_use')
\* await Sentry.startSpan(..., async toolSpan => { enqueue tool_start }); the
\* callback has no await of its own, so it runs to its end inside startSpan
RECURSIVE ToolStarts(_)
ToolStarts(content) ==
  IF content = <<>> THEN <<>>
  ELSE (IF Head(content).type = "tool_use"
        THEN << StartSpan(Head(content).name),
                Enqueue(ToolStartFrame(Head(content).name)),
                EndSpan(Head(content).name) >>
        ELSE <<>>)
         \o ToolStarts(Tail(content))

\* customer-research: for (const block of content)
\* if (block.type === 'tool_use') enqueue tool_start
RECURSIVE ToolStartsResearch(_)
ToolStartsResearch(content) ==
  IF content = <<>> THEN <<>>
  ELSE (IF Head(content).type = "tool_use"
        THEN <<Enqueue(ToolStartFrame(Head(content).name))>> ELSE <<>>)
         \o ToolStartsResearch(Tail(content))

\* Mutant: a result that is not a success also signals completion.
LoopBody_DoneOnFailure(message) ==
  CASE message.type = "stream_event" ->
         IF message.subtype = "undefined" THEN <<Throw>>
         ELSE IF message.subtype = "text_delta" THEN <<Enqueue(TextDeltaFrame)>>
         ELSE <<>>
    [] message.type = "assistant" -> ToolStarts(message.content)
    [] message.type = "tool_progress" -> <<Enqueue(ToolProgressFrame(message.tool))>>
    [] message.type = "result" ->
         IF message.subtype = "success" THEN <<Enqueue(DoneFrame)>>
         ELSE <<Enqueue(QueryErrorFrame), Enqueue(DoneFrame)>>
    [] OTHER -> <<>>

\* Mutant: tool_progress events are not forwarded.
LoopBody_DropsProgress(message) ==
  CASE message.type = "stream_event" ->
         IF message.subtype = "undefined" THEN <<Throw>>
         ELSE IF message.subtype = "text_delta" THEN <<Enqueue(TextDeltaFrame)>>
         ELSE <<>>
    [] message.type = "assistant" -> ToolStarts(message.content)
    [] message.type = "result" ->
         IF message.subtype = "success" THEN <<Enqueue(DoneFrame)>>
         ELSE <<Enqueue(QueryErrorFrame)>>
    [] OTHER -> <<>>

\* the body of the for-await loop of chat (chat/route.ts lines 138-281)
LoopBody(message) ==
  CASE message.type = "stream_event" ->
         IF message.subtype = "undefined" THEN <<Throw>>
         ELSE IF message.subtype = "text_delta" THEN <<Enqueue(TextDeltaFrame)>>
         ELSE <<>>
    [] message.type = "assistant" -> ToolStarts(message.content)
    [] message.type = "tool_progress" -> <<Enqueue(ToolProgressFrame(message.tool))>>
    [] message.type = "result" ->
         IF message.subtype = "success" THEN <<Enqueue(DoneFrame)>>
         ELSE <<Enqueue(QueryErrorFrame)>>
    [] OTHER -> <<>>

\* the body of the for-await loop of customer-research (part_002 lines
\* 132-224)
LoopBodyResearch(message) ==
  CASE message.type = "stream_event" ->
         IF message.subtype = "undefined" THEN <<Throw>>
         ELSE IF message.subtype = "text_delta" THEN <<Enqueue(TextDeltaFrame)>>
         ELSE <<>>
    [] message.type = "assistant" -> ToolStartsResearch(message.content)
    [] message.type = "tool_progress" -> <<Enqueue(ToolProgressFrame(message.tool))>>
    [] message.type = "result" ->
         IF message.subtype = "success" THEN <<Enqueue(DoneFrame)>>
         ELSE <<Enqueue(QueryErrorFrame)>>
    [] OTHER -> <<>>

\* the body of the for-await loop of customer-research with the MCP server
\* (part_000 lines 180-272)
LoopBodyResearchMcp(message) ==
  CASE message.type = "stream_event" ->
         IF message.subtype = "undefined" THEN <<Throw>>
         ELSE IF message.subtype = "text_delta" THEN <<Enqueue(TextDeltaFrame)>>
         ELSE <<>>
    [] message.type = "assistant" -> ToolStartsResearch(message.content)
    [] message.type = "tool_progress" -> <<Enqueue(ToolProgressFrame(message.tool))>>
    [] message.type = "result" ->
         IF message.subtype = "success" THEN <<Enqueue(DoneFrame)>>
         ELSE <<Enqueue(QueryErrorFrame)>>
    [] OTHER -> <<>>

\* the loop body of the route that received the request
Body(endpoint, message) ==
  IF endpoint = "chat" THEN LoopBody(message)
  ELSE IF endpoint = "customer-research" THEN LoopBodyResearch(message)
  ELSE LoopBodyResearchMcp(message)

\* Mutant: the end of the events closes the stream without the terminator.
AfterLoop_NoTerminator == <<Close>>

\* after the loop (lines 284-285)
AfterLoop == <<Enqueue(DONE), Close>>

\* Mutant: the catch block reports the error and leaves the stream open.
CatchBlock_NoClose == <<Enqueue(StreamErrorFrame)>>

\* the catch block of start() (lines 286-304)
CatchBlock == <<Enqueue(StreamErrorFrame), Close>>

\* The controller after the steps, from c = [stream, frames, closes, threw].
\* enqueue and close throw a TypeError unless the stream is readable.
RECURSIVE RunSteps(_, _)
RunSteps(steps, c) ==
  IF steps = <<>> \/ c.threw THEN c
  ELSE LET step == Head(steps)
       IN CASE step.op = "enqueue" ->
                 IF c.stream = "readable"
                 THEN RunSteps(Tail(steps),
                               [c EXCEPT !.frames = Append(c.frames, step.frame)])
                 ELSE [c EXCEPT !.threw = TRUE]
            [] step.op = "close" ->
                 IF c.stream = "readable"
                 THEN RunSteps(Tail(steps),
                               [c EXCEPT !.stream = "closed", !.closes = c.closes + 1])
                 ELSE [c EXCEPT !.threw = TRUE]
            [] step.op = "throw" -> [c EXCEPT !.threw = TRUE]
            [] step.op \in {"span", "spanEnd"} -> RunSteps(Tail(steps), c)

Controller == [stream |-> stream, frames |-> frames, closes |-> closes, threw |-> FALSE]

\* try { steps } catch { CatchBlock }: caught tells whether the catch block
\* ran, threw whether it threw in its turn (start() then rejects)
TryCatch(steps) ==
  LET r == RunSteps(steps, Controller)
      c == RunSteps(CatchBlock, [r EXCEPT !.threw = FALSE])
  IN IF r.threw
     THEN [stream |-> c.stream, frames |-> c.frames, closes |-> c.closes,
           caught |-> TRUE, threw |-> c.threw]
     ELSE [stream |-> r.stream, frames |-> r.frames, closes |-> r.closes,
           caught |-> FALSE, threw |-> FALSE]

\* a request has arrived; the window manager plays no part
InitRoute ==
  /\ windows = <<>>
  /\ topZIndex = BaseZ
  /\ emitted = <<>>
  /\ lastAssigned = 0
  /\ scenarioStep = 0
  /\ gesture = <<>>
  /\ request \in Requests
  /\ phase = "received"
  /\ response = [status |-> 0, error |-> ""]
  /\ fullPrompt = <<>>
  /\ agent = "idle"
  /\ consumed = <<>>
  /\ frames = <<>>
  /\ stream = "none"
  /\ closes = 0

\* POST until it returns its Response.  new ReadableStream({ start }) calls
\* start at once: query(fullPrompt) is called and the loop waits for the first
\* event before the Response with the stream is returned.
POST ==
  /\ phase = "received"
  /\ response' = [status |-> Handle(request).status, error |-> Handle(request).error]
  /\ fullPrompt' = Handle(request).prompt
  /\ IF Handle(request).status = 200
     THEN phase' = "streaming" /\ agent' = "running" /\ stream' = "readable"
     ELSE phase' = "responded" /\ UNCHANGED <<agent, stream>>
  /\ UNCHANGED <<request, consumed, frames, closes>>
  /\ UNCHANGED winVars

\* what start() has done to the controller, and whether it has settled
Settle(r) ==
  /\ frames' = r.frames
  /\ stream' = r.stream
  /\ closes' = r.closes
  /\ phase' = IF r.threw THEN "failed"
              ELSE IF r.caught \/ r.stream = "closed" THEN "closed"
              ELSE phase

\* query() yields a message and the loop body runs on it; an exception in the
\* body leaves the loop, which calls return() on the iterator
agentYields(message) ==
  /\ phase = "streaming" /\ agent = "running"
  /\ Len(consumed) < MaxEvents
  /\ consumed' = Append(consumed, message)
  /\ Settle(TryCatch(Body(request.endpoint, message)))
  /\ agent' = IF TryCatch(Body(request.endpoint, message)).caught
              THEN "stopped" ELSE agent
  /\ UNCHANGED <<request, response, fullPrompt>>
  /\ UNCHANGED winVars

\* the sequence of messages ends
agentEnds ==
  /\ phase = "streaming" /\ agent = "running"
  /\ agent' = "done"
  /\ Settle(TryCatch(AfterLoop))
  /\ UNCHANGED <<request, response, fullPrompt, consumed>>
  /\ UNCHANGED winVars

\* the iterator of query() rejects
agentThrows ==
  /\ phase = "streaming" /\ agent = "running"
  /\ agent' = "threw"
  /\ Settle(TryCatch(<<Throw>>))
  /\ UNCHANGED <<request, response, fullPrompt, consumed>>
  /\ UNCHANGED winVars

NextRoute ==
  \/ POST
  \/ \E message \in Events : agentYields(message)
  \/ agentEnds
  \/ agentThrows

\* a request whose client reads the response to its end
SpecRoute == InitRoute /\ [][NextRoute]_vars

\* The client goes away and the response body is cancelled.  The underlying
\* source has no cancel(): nothing tells start() or the agent.
clientDisconnects ==
  /\ phase = "streaming" /\ stream = "readable"
  /\ stream' = "cancelled"
  /\ UNCHANGED <<request, phase, response, fullPrompt, agent, consumed, frames, closes>>
  /\ UNCHANGED winVars

NextDisconnect ==
  \/ POST
  \/ \E message \in Events : agentYields(message)
  \/ agentEnds
  \/ agentThrows
  \/ clientDisconnects

\* a request whose client may go away while the agent is at work
SpecDisconnect == InitRoute /\ [][NextDisconnect]_vars

----------------------------------------------------------------------------
(* Properties *)

Defined == windows # Undefined
Idx == IF Defined THEN 1..Len(windows) ELSE {}

FocusedCount == Cardinality({ k \in Idx : windows[k].isFocused })

\* the calls a handler can make
OpenCalls == { OpenCall(window) : window \in WindowSpecs }
IdCalls(ops) == { IdCall(op, id) : op \in ops, id \in Ids }
AllCalls ==
  OpenCalls
    \cup IdCalls({"close", "minimize", "maximize", "restore", "focus"})
    \cup { PositionCall(id, p[1], p[2]) : id \in Ids, p \in Positions }
    \cup { SizeCall(id, sz[1], sz[2]) : id \in Ids, sz \in Sizes }

\* the collection that the event making the one call c installs in this state
After(c, idle) == Render(<<c>>, idle, windows, topZIndex).windows

NoneMinimizedFocused(W) ==
  W # Undefined => \A k \in 1..Len(W) : ~(W[k].isMinimized /\ W[k].isFocused)

\* C1: after any sequence of operations the number of windows with
\* isFocused = true is 0 or 1.
C1_AtMostOneFocused == FocusedCount <= 1

\* Two windows, the first one focused again after the second was opened.
C1_Witness ==
  /\ Defined /\ Len(windows) = 2
  /\ windows[1].isFocused /\ ~windows[2].isFocused
  /\ windows[1].zIndex = topZIndex
  /\ windows[2].zIndex > BaseZ + 1

MinimizedUnfocused == NoneMinimizedFocused(windows)

\* C2 as stated: in every reachable state no window is both minimized and
\* focused, whatever operations were called with whatever arguments.
C2_Original == MinimizedUnfocused

FocusOnMinimized(c) ==
  c.op = "focus" /\ Has(windows, c.id) /\ Find(windows, c.id).isMinimized

OpenCreatesMinimized(c) ==
  c.op = "open" /\ ~Has(windows, c.id) /\ c.isMinimized

\* C2 as amended: a window that is both minimized and focused arises only from
\* focus(id) applied to a minimized window or from open(spec) creating a window
\* with isMinimized = true; every other operation keeps isMinimized => ~isFocused.
C2_OnlyFocusOrCreateBreaks ==
  (Defined /\ MinimizedUnfocused)
    => \A c \in AllCalls, idle \in BOOLEAN :
         (~FocusOnMinimized(c) /\ ~OpenCreatesMinimized(c))
           => NoneMinimizedFocused(After(c, idle))

\* minimize has acted on the window that was on top: it is minimized and unfocused.
C2_Witness ==
  /\ emitted = <<"log:Window minimized", "count:window.minimized">>
  /\ \E k \in Idx : /\ windows[k].isMinimized /\ ~windows[k].isFocused
                    /\ windows[k].zIndex = topZIndex
  /\ FocusedCount = 0

\* a call of an operation that takes an id
IdStep(id) ==
  \/ closeWindow(id)
  \/ minimizeWindow(id)
  \/ maximizeWindow(id)
  \/ \E idle \in IdleNow : restoreWindow(id, idle)
  \/ \E idle \in IdleNow : focusWindow(id, idle)
  \/ \E p \in Positions : updateWindowPosition(id, p[1], p[2])
  \/ \E s \in Sizes : updateWindowSize(id, s[1], s[2])

\* C3: an operation called with an id that is not in the collection leaves
\* the collection identical, every field of every window included.
C3_AbsentIdIsNoOp ==
  [][ \A id \in Ids :
        (Defined /\ ~Has(windows, id) /\ IdStep(id)) => windows' = windows ]_vars

\* C4: the zIndex a bring-to-front operation assigns is strictly greater than
\* the one assigned by the previous such operation, whatever happened in
\* between, so no value is assigned twice, also after its window was closed.
C4_AssignedIncreases ==
  [][ \A z \in AssignedZ(windows, windows') : z > lastAssigned ]_vars

\* A second window was opened after the first one, which held 101, was closed.
C4_Witness ==
  /\ Defined /\ Len(windows) = 1
  /\ windows[1].zIndex = lastAssigned
  /\ lastAssigned >= BaseZ + 2
  /\ emitted = <<"log:Window opened", "count:window.opened", "gauge:window.open_count">>

\* C5: right after open, focus or restore is applied to a window that is
\* present or newly created, its zIndex is greater than that of every other
\* window.
C5_TargetOnTop ==
  Defined =>
    \A c \in OpenCalls \cup IdCalls({"restore", "focus"}), idle \in BOOLEAN :
      LET W2 == After(c, idle)
      IN (W2 # Undefined /\ Has(W2, c.id))
           => \A k \in 1..Len(W2) :
                W2[k].id # c.id => Find(W2, c.id).zIndex > W2[k].zIndex

\* open for an id that is already open has raised it above the other window.
C5_Witness ==
  /\ Defined /\ Len(windows) = 2
  /\ emitted = <<"log:Window focused (already open)">>
  /\ windows[1].isFocused
  /\ windows[1].zIndex > windows[2].zIndex

\* C6: the ids of the windows are pairwise distinct, also after repeated open
\* calls with one id, in separate events or in the same event.
C6_IdsDistinct ==
  \A j \in Idx, k \in Idx : windows[j].id = windows[k].id => j = k

\* Two open calls with the same new id in one event: the first created the
\* window, the second found it.
C6_Witness ==
  /\ Defined /\ Len(windows) = 1
  /\ emitted = <<"log:Window opened", "count:window.opened",
                 "gauge:window.open_count", "log:Window focused (already open)">>

\* C7: the zIndex values of the windows are pairwise distinct and each lies in
\* 101..topZIndex.
C7_ZIndexDistinctInRange ==
  /\ \A j \in Idx, k \in Idx : windows[j].zIndex = windows[k].zIndex => j = k
  /\ \A k \in Idx : windows[k].zIndex \in (BaseZ + 1)..topZIndex

\* Two windows holding the first and the third value allocated.
C7_Witness ==
  /\ Defined /\ Len(windows) = 2
  /\ windows[1].zIndex = BaseZ + 3 /\ windows[2].zIndex = BaseZ + 2
  /\ topZIndex = BaseZ + 3

\* C8: open(spec) where a window with spec.id exists and is minimized yields
\* exactly one window with that id, not minimized, focused, with the newly
\* allocated zIndex; every other window is unfocused; the size is unchanged.
C8_OpenRestoresMinimized ==
  Defined =>
    \A c \in OpenCalls, idle \in BOOLEAN :
      (Has(windows, c.id) /\ Find(windows, c.id).isMinimized)
        => LET W2 == After(c, idle)
           IN /\ W2 # Undefined
              /\ Len(W2) = Len(windows)
              /\ Cardinality({ k \in 1..Len(W2) : W2[k].id = c.id }) = 1
              /\ \A k \in 1..Len(W2) :
                   IF W2[k].id = c.id
                   THEN /\ ~W2[k].isMinimized
                        /\ W2[k].isFocused
                        /\ W2[k].zIndex = topZIndex + 1
                        /\ W2[k].zIndex = TopAfter(<<c>>, topZIndex)
                   ELSE ~W2[k].isFocused

\* open has restored a minimized window next to another one.
C8_Witness ==
  /\ Defined /\ Len(windows) = 2
  /\ emitted = <<"log:Window restored from taskbar", "count:window.restored">>
  /\ \E k \in Idx : /\ windows[k].isFocused /\ ~windows[k].isMinimized
                    /\ windows[k].zIndex = topZIndex

\* C9: open(spec) where no window has spec.id yields the previous windows,
\* each unfocused and otherwise unchanged, plus one new window with the
\* spec's fields, zIndex = old topZIndex + 1 and isFocused = true; topZIndex
\* becomes old topZIndex + 1.
C9_OpenCreates ==
  [][ \A window \in WindowSpecs :
        (/\ Defined /\ ~Has(windows, window.id)
         /\ \E idle \in IdleNow : openWindow(window, idle))
        => /\ topZIndex' = topZIndex + 1
           /\ windows' # Undefined
           /\ Len(windows') = Len(windows) + 1
           /\ \A k \in 1..Len(windows) :
                windows'[k] = [windows[k] EXCEPT !.isFocused = FALSE]
           /\ windows'[Len(windows')] = NewWindow(window, topZIndex + 1) ]_vars

\* C10: close(id) reduces the size of the collection by exactly 1 when id is
\* present and by 0 when it is absent; the window removed is the one with that
\* id, every other window keeps all its fields, and topZIndex is unchanged.
C10_CloseRemovesOne ==
  Defined =>
    \A c \in IdCalls({"close"}) :
      LET W2 == After(c, FALSE)
      IN /\ W2 # Undefined
         /\ TopAfter(<<c>>, topZIndex) = topZIndex
         /\ Len(W2) = Len(windows) - (IF Has(windows, c.id) THEN 1 ELSE 0)
         /\ ~Has(W2, c.id)
         /\ \A k \in 1..Len(windows) :
              windows[k].id # c.id => \E j \in 1..Len(W2) : W2[j] = windows[k]

\* close has removed the focused window and left the other one as it was.
C10_Witness ==
  /\ Defined /\ Len(windows) = 1
  /\ emitted = <<"log:Window closed", "count:window.closed", "gauge:window.open_count">>
  /\ ~windows[1].isFocused
  /\ windows[1].zIndex < lastAssigned

\* C11: minimize(id) on a present id changes only isMinimized (to true) and
\* isFocused (to false) of the target: isMaximized, zIndex, position and size
\* of the target, every other window, and topZIndex are unchanged.
C11_MinimizeFrame ==
  Defined =>
    \A c \in IdCalls({"minimize"}) :
      Has(windows, c.id)
        => /\ TopAfter(<<c>>, topZIndex) = topZIndex
           /\ After(c, FALSE) =
                [k \in 1..Len(windows) |->
                   IF windows[k].id = c.id
                   THEN [windows[k] EXCEPT !.isMinimized = TRUE,
                                           !.isFocused = FALSE]
                   ELSE windows[k]]

\* minimize has acted on a maximized window that was not on top: it is still
\* maximized, and the other window is still focused.
C11_Witness ==
  /\ Defined /\ Len(windows) = 2
  /\ emitted = <<"log:Window minimized", "count:window.minimized">>
  /\ \E j \in Idx, k \in Idx :
       /\ windows[j].isMinimized /\ ~windows[j].isFocused
       /\ windows[j].isMaximized /\ windows[j].zIndex < topZIndex
       /\ windows[k].isFocused /\ ~windows[k].isMinimized
       /\ windows[k].zIndex = topZIndex

\* the windows that Scenario creates, as created
ScenarioA == NewWindow(SpecOf(Scenario[1]), BaseZ + 1)
ScenarioB == NewWindow(SpecOf(Scenario[2]), BaseZ + 2)

\* the collections the scenario passes through, by number of events made
ScenarioStates ==
  << <<ScenarioA>>,
     <<[ScenarioA EXCEPT !.isFocused = FALSE], ScenarioB>>,
     <<[ScenarioA EXCEPT !.isFocused = FALSE, !.isMinimized = TRUE], ScenarioB>>,
     <<[ScenarioA EXCEPT !.zIndex = BaseZ + 3],
       [ScenarioB EXCEPT !.isFocused = FALSE]>>,
     <<[ScenarioA EXCEPT !.zIndex = BaseZ + 3]>> >>

\* C12: from the empty manager with topZIndex = 100, the events open(a),
\* open(b), minimize(a), open(a), close(b) pass through exactly these states:
\* a focused at 101; b focused at 102 and a unfocused; a minimized and
\* unfocused, b unchanged; a restored and focused at 103, b unfocused; only a.
C12_Scenario ==
  scenarioStep \in 1..Len(Scenario) => windows = ScenarioStates[scenarioStep]

\* the collection that the event making the one call c installs when the
\* collection is W and the counter is Z
AfterOn(W, Z, c, idle) == Render(<<c>>, idle, W, Z).windows

\* C13: open(spec) where a window with spec.id exists and is not minimized sets
\* only that window's isFocused = true and zIndex = the new counter value and
\* clears isFocused on the others; its x, y, width, height, isMaximized,
\* isMinimized, title, icon and content stay, whatever the spec carries.
C13_OpenExistingFrame ==
  Defined =>
    \A c \in OpenCalls, idle \in BOOLEAN :
      (Has(windows, c.id) /\ ~Find(windows, c.id).isMinimized)
        => /\ TopAfter(<<c>>, topZIndex) = topZIndex + 1
           /\ After(c, idle) =
                [k \in 1..Len(windows) |->
                   IF windows[k].id = c.id
                   THEN [windows[k] EXCEPT !.isFocused = TRUE,
                                           !.zIndex = topZIndex + 1]
                   ELSE [windows[k] EXCEPT !.isFocused = FALSE]]

\* An unfocused open window is opened again with a spec that differs from it
\* in title, position, size and isMaximized: it is raised and keeps its own.
C13_Witness ==
  /\ Defined /\ Len(windows) = 2
  /\ \E c \in OpenCalls :
       /\ Has(windows, c.id)
       /\ ~Find(windows, c.id).isMinimized /\ ~Find(windows, c.id).isFocused
       /\ Find(windows, c.id).title # c.title
       /\ Find(windows, c.id).x # c.x
       /\ Find(windows, c.id).width # c.width
       /\ Find(windows, c.id).isMaximized # c.isMaximized
       /\ Find(After(c, FALSE), c.id).isFocused
       /\ Find(After(c, FALSE), c.id).zIndex = topZIndex + 1
       /\ Find(After(c, FALSE), c.id).x = Find(windows, c.id).x

\* C14: restore(id) on a present id sets that window's isMinimized = false,
\* isFocused = true and zIndex = old topZIndex + 1, sets isFocused = false on
\* every other window, and changes no other field of any window.
C14_RestoreEffect ==
  Defined =>
    \A c \in IdCalls({"restore"}), idle \in BOOLEAN :
      Has(windows, c.id)
        => /\ TopAfter(<<c>>, topZIndex) = topZIndex + 1
           /\ After(c, idle) =
                [k \in 1..Len(windows) |->
                   IF windows[k].id = c.id
                   THEN [windows[k] EXCEPT !.isMinimized = FALSE,
                                           !.isFocused = TRUE,
                                           !.zIndex = topZIndex + 1]
                   ELSE [windows[k] EXCEPT !.isFocused = FALSE]]

\* A minimized, maximized window is restored next to the focused one: it comes
\* back maximized and focused, and the other one loses the focus.
C14_Witness ==
  /\ Defined /\ Len(windows) = 2
  /\ \E c \in IdCalls({"restore"}) :
       /\ Has(windows, c.id)
       /\ Find(windows, c.id).isMinimized /\ Find(windows, c.id).isMaximized
       /\ \E k \in Idx : windows[k].id # c.id /\ windows[k].isFocused
       /\ ~Find(After(c, FALSE), c.id).isMinimized
       /\ Find(After(c, FALSE), c.id).isMaximized
       /\ Find(After(c, FALSE), c.id).isFocused
       /\ \A k \in Idx : windows[k].id # c.id => ~After(c, FALSE)[k].isFocused

\* C15: focus(id) on a present id sets that window's isFocused = true and
\* zIndex = old topZIndex + 1 and clears isFocused on every other window;
\* isMinimized and isMaximized of every window, the target included, and all
\* positions and sizes are unchanged.
C15_FocusFrame ==
  Defined =>
    \A c \in IdCalls({"focus"}), idle \in BOOLEAN :
      Has(windows, c.id)
        => /\ TopAfter(<<c>>, topZIndex) = topZIndex + 1
           /\ After(c, idle) =
                [k \in 1..Len(windows) |->
                   IF windows[k].id = c.id
                   THEN [windows[k] EXCEPT !.isFocused = TRUE,
                                           !.zIndex = topZIndex + 1]
                   ELSE [windows[k] EXCEPT !.isFocused = FALSE]]

\* A minimized window is focused next to the focused one: it stays minimized.
C15_Witness ==
  /\ Defined /\ Len(windows) = 2
  /\ \E c \in IdCalls({"focus"}) :
       /\ Has(windows, c.id)
       /\ Find(windows, c.id).isMinimized /\ ~Find(windows, c.id).isFocused
       /\ \E k \in Idx : windows[k].id # c.id /\ windows[k].isFocused
       /\ Find(After(c, FALSE), c.id).isMinimized
       /\ Find(After(c, FALSE), c.id).isFocused
       /\ Find(After(c, FALSE), c.id).zIndex = topZIndex + 1

\* C16: maximize(id) on a present id flips that window's isMaximized and
\* changes nothing else, in that window, in the others or in topZIndex; two
\* consecutive maximize(id) calls return the state to what it was.
C16_MaximizeToggles ==
  Defined =>
    \A c \in IdCalls({"maximize"}) :
      Has(windows, c.id)
        => /\ TopAfter(<<c>>, topZIndex) = topZIndex
           /\ After(c, FALSE) =
                [k \in 1..Len(windows) |->
                   IF windows[k].id = c.id
                   THEN [windows[k] EXCEPT !.isMaximized = ~windows[k].isMaximized]
                   ELSE windows[k]]
           /\ AfterOn(After(c, FALSE), topZIndex, c, FALSE) = windows

\* maximize has acted on a maximized, unfocused, minimized window.
C16_Witness ==
  /\ Defined /\ Len(windows) = 2
  /\ emitted = <<"log:Window restored from maximize", "count:window.unmaximized">>
  /\ \E k \in Idx : /\ ~windows[k].isMaximized /\ windows[k].isMinimized
                    /\ ~windows[k].isFocused /\ windows[k].zIndex < topZIndex

PositionCalls == { PositionCall(id, p[1], p[2]) : id \in Ids, p \in Positions }
SizeCalls == { SizeCall(id, sz[1], sz[2]) : id \in Ids, sz \in Sizes }

\* C17: updatePosition(id, x, y) on a present id changes only that window's x
\* and y, to the given values, and updateSize(id, w, h) only its width and
\* height; flags, zIndex, the other windows and topZIndex are unchanged, and
\* the two operations on the same id commute.
C17_MoveResizeFrame ==
  Defined =>
    \A cp \in PositionCalls, cs \in SizeCalls :
      (Has(windows, cp.id) /\ cs.id = cp.id)
        => /\ TopAfter(<<cp>>, topZIndex) = topZIndex
           /\ TopAfter(<<cs>>, topZIndex) = topZIndex
           /\ After(cp, FALSE) =
                [k \in 1..Len(windows) |->
                   IF windows[k].id = cp.id
                   THEN [windows[k] EXCEPT !.x = cp.x, !.y = cp.y]
                   ELSE windows[k]]
           /\ After(cs, FALSE) =
                [k \in 1..Len(windows) |->
                   IF windows[k].id = cs.id
                   THEN [windows[k] EXCEPT !.width = cs.width, !.height = cs.height]
                   ELSE windows[k]]
           /\ AfterOn(After(cp, FALSE), topZIndex, cs, FALSE)
                = AfterOn(After(cs, FALSE), topZIndex, cp, FALSE)
           /\ Render(<<cp, cs>>, FALSE, windows, topZIndex).windows
                = Render(<<cs, cp>>, FALSE, windows, topZIndex).windows

\* The window launched at 0,0 with 400x300 was moved and then resized; the
\* other window is as it was launched.
C17_Witness ==
  /\ Defined /\ Len(windows) = 2
  /\ emitted = <<"log:Window size updated", "count:window.resized",
                 "distribution:window.width", "distribution:window.height">>
  /\ windows[1].title = "Notes" /\ ~windows[1].isFocused
  /\ windows[1].x = 40 /\ windows[1].y = 20
  /\ windows[1].width = 500 /\ windows[1].height = 350
  /\ windows[2] = NewWindow(SpecOf(Scenario[2]), BaseZ + 2)

\* C18: from its creation until it is closed a window's title, icon and
\* content never change, whatever operations are called, open(spec) for the
\* same id with another title, icon or content included.
C18_TitleIconContentFixed ==
  [][ (Defined /\ windows' # Undefined)
        => \A j \in 1..Len(windows), k \in 1..Len(windows') :
             windows[j].id = windows'[k].id
               => /\ windows'[k].title = windows[j].title
                  /\ windows'[k].icon = windows[j].icon
                  /\ windows'[k].content = windows[j].content ]_vars

\* A minimized window is opened again with a spec that carries another title,
\* icon and content: it comes back with its own.
C18_Witness ==
  /\ Defined
  /\ \E c \in OpenCalls :
       /\ Has(windows, c.id)
       /\ Find(windows, c.id).isMinimized
       /\ Find(windows, c.id).title # c.title
       /\ Find(windows, c.id).icon # SpecOf(c).icon
       /\ Find(windows, c.id).content # SpecOf(c).content
       /\ ~Find(After(c, FALSE), c.id).isMinimized
       /\ Find(After(c, FALSE), c.id).title = Find(windows, c.id).title

\* The transitions of the calls applied to the current collection one after
\* the other in call order, telemetry left out: each updater's returned list,
\* with nothing written by the gauge emission.
InOrder(calls) ==
  RunPass(calls, 1, 1..Len(calls), TRUE, Upd(windows, <<>>, FALSE), topZIndex).windows

\* C19: two operations A then B invoked in the same synchronous event leave the
\* state that A's transition followed by B's transition gives, also when one
\* of them queues its collection update from inside the topZIndex updater
\* (open, focus, restore) and the other updates the collection directly.
\* Compared wherever the event leaves a list of windows.
C19_CallOrder ==
  Defined =>
    \A c1 \in BatchCalls, c2 \in BatchCalls :
      \A idle \in IdleChoices(c1) :
        LET W2 == Render(<<c1, c2>>, idle, windows, topZIndex).windows
        IN W2 # Undefined => W2 = InOrder(<<c1, c2>>)

\* C20: telemetry never changes the state: every operation leaves the
\* collection of its transition with the telemetry steps removed, and the
\* collection is a list of windows after every step; the gauge emission of
\* open's create branch writes nothing to it.
C20_TelemetryInert ==
  /\ Defined
  /\ \A c \in AllCalls, idle \in IdleNow : After(c, idle) = InOrder(<<c>>)

\* C21: with the window view as the only caller of updatePosition and
\* updateSize, a drag-end or resize-end gesture on a window whose isMaximized
\* is true makes no such call: x, y, width and height of a window do not
\* change in any step taken while it is maximized.
C21_MaximizedGeometryFixed ==
  [][ (Defined /\ windows' # Undefined)
        => \A j \in 1..Len(windows), k \in 1..Len(windows') :
             (windows[j].id = windows'[k].id /\ windows[j].isMaximized)
               => /\ windows'[k].x = windows[j].x
                  /\ windows'[k].y = windows[j].y
                  /\ windows'[k].width = windows[j].width
                  /\ windows'[k].height = windows[j].height ]_vars

\* A drag has just ended on a maximized window at a position that is not the
\* window's: the window is where it was launched.
C21_Witness ==
  /\ Defined /\ Len(gesture) = 4 /\ gesture[1] = "drag"
  /\ emitted = <<>>
  /\ \E k \in Idx :
       /\ windows[k].id = gesture[2]
       /\ windows[k].isMaximized /\ ~windows[k].isMinimized
       /\ windows[k].title = "Notes"
       /\ windows[k].x = 0 /\ gesture[3] = 40

----------------------------------------------------------------------------
(* Properties of the agent endpoints *)

Answered == phase # "none" /\ phase # "received"

\* number of entries of a sequence that equal x
Count(seq, x) == Cardinality({ k \in 1..Len(seq) : seq[k] = x })

\* every entry of the array is a MessageInput record
WellTyped(messages) == \A k \in 1..Len(messages) : messages[k] # JsNull

\* the JSON body is a value whose messages is missing, is no array, or is an
\* array of messages none of which has role "user"
NoUserMessage(req) ==
  \/ req.json \in {"number", "object", "messagesNull", "messagesString"}
  \/ /\ req.json = "array"
     /\ WellTyped(req.messages)
     /\ \A k \in 1..Len(req.messages) : req.messages[k].role # "user"

Malformed(req) == req.json \in {"unparseable", "empty", "null", "number"}

\* C23: a request with malformed or absent input (a body that is not
\* parseable JSON, an empty body, a JSON body that is null or not an object)
\* is answered with HTTP 400, not with HTTP 500.
C23_MalformedIs400 ==
  (Answered /\ Malformed(request)) => response.status = 400

\* the last entry of a sequence that is not empty
Last(seq) == seq[Len(seq)]

C25_FailureResultInStream ==
  phase \in {"streaming", "closed"}
    => /\ response.status = 200
       /\ Count(frames, QueryErrorFrame) = Count(consumed, ResultMaxTurns)
       /\ Count(frames, DoneFrame) = Count(consumed, ResultSuccess)
       /\ (consumed # <<>> /\ Last(consumed) = ResultMaxTurns /\ agent = "running")
            => /\ phase = "streaming" /\ stream = "readable"
               /\ Last(frames) = QueryErrorFrame
       /\ (agent = "done" /\ Count(consumed, ResultMaxTurns) > 0)
            => /\ phase = "closed" /\ stream = "closed"
               /\ Last(frames) = DONE

\* After a result that was no success the loop took one more event, and the
\* stream ended with [DONE].
C25_Witness ==
  /\ phase = "closed" /\ agent = "done"
  /\ consumed = <<ResultMaxTurns, TextDelta>>
  /\ frames = <<QueryErrorFrame, TextDeltaFrame, DONE>>
  /\ response.status = 200

ThrowsBeforeStream(req) ==
  \/ JsonThrows(req)
  \/ DestructureThrows(req)
  \/ (~MessagesMissing(req) /\ FilterThrows(req.messages))

\* C27: an exception raised before the streaming response is constructed gives
\* status 500 with the fixed message of the endpoint as its error, and the
\* agent is not run and no frame is produced for the request; once the
\* streaming response has been returned the status is 200 whatever is thrown.
C27_EarlyExceptionIs500 ==
  /\ Answered
       => /\ ThrowsBeforeStream(request) <=> response.status = 500
          /\ response.status = 500
               => /\ response.error = InternalError(request.endpoint)
                  /\ phase = "responded" /\ agent = "idle" /\ stream = "none"
                  /\ consumed = <<>> /\ frames = <<>> /\ fullPrompt = <<>>
  /\ (agent # "idle" \/ stream # "none" \/ frames # <<>>)
       => response.status = 200

\* A request whose body is the JSON value null has been answered.
C27_Witness ==
  /\ Answered /\ request.json = "null" /\ request.endpoint = "customer-research"
  /\ response.status = 500
  /\ response.error = InternalError("customer-research")

\* C28: once the client has disconnected the endpoint takes no further event
\* from the agent and starts no further step of it.
C28_DisconnectStopsAgent ==
  [][stream = "cancelled" => (consumed' = consumed /\ agent' = agent)]_vars

\* the tool_use blocks of the content of an assistant message
ToolUseBlocks(content) == SelectSeq(content, LAMBDA b : b.type = "tool_use")

\* The frames one event stands for; failure is what a result that is no
\* success stands for.
FramesOf(message, failure) ==
  IF message.type = "stream_event" /\ message.subtype = "text_delta"
  THEN <<TextDeltaFrame>>
  ELSE IF message.type = "assistant"
  THEN [k \in 1..Len(ToolUseBlocks(message.content))
          |-> ToolStartFrame(ToolUseBlocks(message.content)[k].name)]
  ELSE IF message.type = "tool_progress"
  THEN <<ToolProgressFrame(message.tool)>>
  ELSE IF message.type = "result" /\ message.subtype = "success"
  THEN <<DoneFrame>>
  ELSE IF message.type = "result"
  THEN failure
  ELSE <<>>

\* the image of a sequence of events, in order
RECURSIVE Image(_, _)
Image(events, failure) ==
  IF events = <<>> THEN <<>>
  ELSE FramesOf(Head(events), failure) \o Image(Tail(events), failure)

\* what ends the frames: nothing while the agent runs, [DONE] when its events
\* have ended, the error frame of the catch block when something was thrown
Ending ==
  IF phase = "streaming" THEN <<>>
  ELSE IF agent = "done" THEN <<DONE>>
  ELSE <<StreamErrorFrame>>

\* C29 as stated: the frames are the image of the events in order, where a
\* text delta gives one text_delta frame, each tool_use block one tool_start
\* frame in block order, a tool_progress event one tool_progress frame, a
\* success result one done frame and every other event no frame, all before
\* [DONE].
C29_ImageOfEvents ==
  phase \in {"streaming", "closed"} => frames = Image(consumed, <<>>) \o Ending

\* C29 as amended: the same image, where a result that is no success gives one
\* error frame.
C29_ImageWithFailures ==
  phase \in {"streaming", "closed"}
    => frames = Image(consumed, <<QueryErrorFrame>>) \o Ending

\* An assistant message with two tool_use blocks, a tool_progress and a result
\* that is no success have been forwarded and the events have ended.
C29_Witness ==
  /\ phase = "closed" /\ agent = "done"
  /\ consumed = <<AssistantMessage, ToolProgress, ResultMaxTurns>>
  /\ frames = << ToolStartFrame("Read"), ToolStartFrame("Bash"),
                 ToolProgressFrame("Read"), QueryErrorFrame, DONE >>

\* the entries of the prompt that stand for messages
PromptEntries ==
  SelectSeq(fullPrompt, LAMBDA part : part[1] \in {"User", "Assistant"})

\* C30: for an accepted request the prompt holds, after the system prompt,
\* every message of the conversation once and in the order of the request, so
\* that its last User entry is the last user message, also when the last
\* message is the assistant's.
C30_PromptHoldsConversation ==
  (Answered /\ response.status = 200)
    => PromptEntries = [k \in 1..Len(request.messages) |-> Line(request.messages[k])]

(* Further properties of the window manager *)

\* the windows of W that hold the focus
Focused(W) == IF W = Undefined THEN {} ELSE { k \in 1..Len(W) : W[k].isFocused }

\* C31: a window with isFocused = true has zIndex equal to topZIndex, and an
\* open, focus or restore call, also one with an id that is not in the
\* collection, leaves every window other than its target unfocused.
C31_FocusedHoldsTop ==
  Defined =>
    /\ \A k \in Idx : windows[k].isFocused => windows[k].zIndex = topZIndex
    /\ \A c \in OpenCalls \cup IdCalls({"restore", "focus"}), idle \in IdleNow :
         \A k \in Focused(After(c, idle)) : After(c, idle)[k].id = c.id

\* focus was called with an id that is not in the collection: the one window
\* lost the focus and the z value allocated is held by no window.
C31_Witness ==
  /\ Defined /\ Len(windows) = 1
  /\ ~windows[1].isFocused /\ ~windows[1].isMinimized
  /\ windows[1].zIndex = BaseZ + 1
  /\ topZIndex = BaseZ + 2
  /\ emitted = <<>>

\* C32: topZIndex starts at 100, grows by exactly 1 with every call of open,
\* focus or restore, whether or not the id is in the collection, is left as
\* it is by close, minimize, maximize, updatePosition and updateSize, and
\* never decreases.
C32_TopCountsCalls ==
  /\ topZIndex = 100
  /\ [](\A c \in AllCalls :
          TopAfter(<<c>>, topZIndex)
            = IF c.op \in {"open", "focus", "restore"}
              THEN topZIndex + 1 ELSE topZIndex)
  /\ [][topZIndex' \in {topZIndex, topZIndex + 1}]_vars

\* Three calls of focus or restore were made while the collection was empty:
\* no window was ever given a z value and the counter stands at 103.
C32_Witness ==
  /\ windows = <<>> /\ lastAssigned = 0
  /\ topZIndex = 103

\* the calls that allocate no z value
PlainCalls == { c \in AllCalls : c.op \notin {"open", "focus", "restore"} }

\* C33: the focus is never handed over: after close(id) or minimize(id) of
\* the focused window no window holds the focus, and while no window holds
\* it, close, minimize, maximize, updatePosition and updateSize give it to
\* none; only an open, focus or restore call can.
C33_NoHandOver ==
  Defined =>
    /\ \A id \in Ids :
         (Has(windows, id) /\ Find(windows, id).isFocused)
           => /\ Focused(After(IdCall("close", id), FALSE)) = {}
              /\ Focused(After(IdCall("minimize", id), FALSE)) = {}
    /\ Focused(windows) = {}
         => \A c \in PlainCalls : Focused(After(c, FALSE)) = {}

\* The focused one of two windows was closed: the other one is on the screen
\* and does not hold the focus.
C33_Witness ==
  /\ Defined /\ Len(windows) = 1
  /\ ~windows[1].isFocused /\ ~windows[1].isMinimized
  /\ windows[1].zIndex = BaseZ + 1
  /\ topZIndex = BaseZ + 2
  /\ emitted = <<"log:Window closed", "count:window.closed", "gauge:window.open_count">>

\* C34: when focus is called by the window view only, which renders nothing
\* for a minimized window, and no open call creates a window minimized, no
\* window is minimized and focused in any state of the view and the manager
\* together, also after a click on the minimize button of the title bar, whose
\* pointer-down calls focus before the click calls minimize.
C34_ViewKeepsMinimizedUnfocused ==
  Defined => \A k \in Idx : windows[k].isMinimized => ~windows[k].isFocused

\* The minimize button was clicked with the pointer: the pointer-down gave the
\* window the top z value and the click minimized it.
C34_Witness ==
  /\ Defined /\ gesture = <<"click", "a", "minimize">>
  /\ \E k \in Idx :
       /\ windows[k].id = "a"
       /\ windows[k].isMinimized /\ ~windows[k].isFocused
       /\ windows[k].zIndex = topZIndex
  /\ topZIndex = BaseZ + 2

----------------------------------------------------------------------------
(* Further properties of the agent endpoints *)

\* try { steps } catch { CatchBlock } on the controller c
TryOn(c, steps) ==
  IF RunSteps(steps, c).threw
  THEN RunSteps(CatchBlock, [RunSteps(steps, c) EXCEPT !.threw = FALSE])
  ELSE RunSteps(steps, c)

\* the controller of a route after its loop has taken the events
RECURSIVE Replay(_, _, _)
Replay(endpoint, events, c) ==
  IF events = <<>> \/ c.stream # "readable" THEN c
  ELSE Replay(endpoint, Tail(events), TryOn(c, Body(endpoint, Head(events))))

\* the controller of a route whose agent produced what the agent of this
\* request has produced so far
StartOf(endpoint) ==
  LET c == Replay(endpoint, consumed,
                  [stream |-> "readable", frames |-> <<>>, closes |-> 0,
                   threw |-> FALSE])
  IN IF agent = "done" THEN TryOn(c, AfterLoop)
     ELSE IF agent = "threw" THEN TryOn(c, <<Throw>>)
     ELSE c

\* C35: for the same events of the agent the chat route and the two versions
\* of the customer-research route emit the same frames in the same order and
\* close the stream alike; the spans that chat awaits around each tool_start
\* frame add, drop and reorder nothing.
C35_RoutesEmitAlike ==
  phase \in {"streaming", "closed"}
    => \A endpoint \in Endpoints :
         /\ StartOf(endpoint).frames = frames
         /\ StartOf(endpoint).stream = stream
         /\ StartOf(endpoint).closes = closes

\* The chat route has announced the two tools of one assistant message, each
\* inside its span, and has ended the stream.
C35_Witness ==
  /\ request.endpoint = "chat"
  /\ phase = "closed" /\ agent = "done"
  /\ consumed = <<AssistantMessage, TextDelta>>
  /\ frames = <<ToolStartFrame("Read"), ToolStartFrame("Bash"), TextDeltaFrame, DONE>>

====
